---- MODULE Spec2Model ----
(***************************************************************************)
(* Outlook to-do synchroniser (package outlook_todo): the record model,    *)
(* the JSON-backed store, the mail gateway, the synchroniser and the       *)
(* per-record Markdown exporter.                                           *)
(*                                                                         *)
(* Text is modelled as a sequence of one-character strings, so that the    *)
(* slug, strip and formatting code can be modelled character by character. *)
(* A datetime is [wall, aware, off]: the wall-clock minute, whether tzinfo *)
(* is set, and the UTC offset in minutes (0 when naive).                   *)
(***************************************************************************)
EXTENDS Integers, Sequences, FiniteSets, TLC

VARIABLES
    items,    \* items[p]: TodoStorage._items of process p, an insertion-ordered dict
    disk,     \* the JSON document at TodoStorage.path: [exists, data]
    dir,      \* the export directory: file name -> file content
    lastOp    \* the last call: its arguments, where it went, what it returned

vars == <<items, disk, dir, lastOp>>

(* ------------------------------ bounds -------------------------------- *)

\* Records one store holds at most.
MaxItems == 2
\* Messages one fetch returns at most.
MaxFetch == 2

(* ------------------------------- text --------------------------------- *)

Lower == {"a","b","c","d","e","f","g","h","i","j","k","l","m",
          "n","o","p","q","r","s","t","u","v","w","x","y","z"}
Upper == {"A","B","C","D","E","F","G","H","I","J","K","L","M",
          "N","O","P","Q","R","S","T","U","V","W","X","Y","Z"}
Digits == {"0","1","2","3","4","5","6","7","8","9"}

\* str.strip() removes these from both ends.
Whitespace == {" ", "\t", "\n"}

RECURSIVE LStrip(_)
LStrip(s) == IF s # <<>> /\ Head(s) \in Whitespace THEN LStrip(Tail(s)) ELSE s

RECURSIVE RStrip(_)
RStrip(s) ==
    IF s # <<>> /\ s[Len(s)] \in Whitespace
    THEN RStrip(SubSeq(s, 1, Len(s) - 1))
    ELSE s

Strip(s) == RStrip(LStrip(s))

\* str(n) for the small naturals the model reaches.
DigitOf(n) ==
    CASE n = 0 -> "0" [] n = 1 -> "1" [] n = 2 -> "2" [] n = 3 -> "3"
      [] n = 4 -> "4" [] n = 5 -> "5" [] n = 6 -> "6" [] n = 7 -> "7"
      [] n = 8 -> "8" [] n = 9 -> "9"

RECURSIVE IntText(_)
IntText(n) == IF n < 10 THEN <<DigitOf(n)>> ELSE IntText(n \div 10) \o <<DigitOf(n % 10)>>

(* ----------------------------- datetimes ------------------------------ *)

Aware(w, off) == [wall |-> w, aware |-> TRUE, off |-> off]
Naive(w) == [wall |-> w, aware |-> FALSE, off |-> 0]

\* The instant an aware datetime denotes; aware datetimes compare by it.
Instant(dt) == dt.wall - dt.off

\* ISO-8601 text is [wall, suffix]; the suffix is <<>> (none), <<"Z">> or
\* <<sign, hours, minutes>>.
\* datetime.isoformat()
isoformat(dt) ==
    [wall |-> dt.wall,
     suffix |-> IF ~dt.aware THEN <<>>
                ELSE IF dt.off >= 0 THEN <<"+", dt.off \div 60, dt.off % 60>>
                ELSE <<"-", (0 - dt.off) \div 60, (0 - dt.off) % 60>>]

\* datetime.fromisoformat(): no suffix gives a naive datetime; "Z" is not
\* accepted and must have been replaced by the caller.
fromisoformat(text) ==
    IF text.suffix = <<>> THEN Naive(text.wall)
    ELSE IF text.suffix[1] = "+"
         THEN Aware(text.wall, text.suffix[2] * 60 + text.suffix[3])
         ELSE Aware(text.wall, 0 - (text.suffix[2] * 60 + text.suffix[3]))

\* models._parse_datetime
_parse_datetime(text) ==
    IF text.suffix = <<"Z">>
    THEN fromisoformat([wall |-> text.wall, suffix |-> <<"+", 0, 0>>])
    ELSE fromisoformat(text)

\* GraphClient.parse_graph_datetime
parse_graph_datetime(text) ==
    LET value == IF text.suffix = <<"Z">>
                 THEN [wall |-> text.wall, suffix |-> <<"+", 0, 0>>]
                 ELSE text
        dt == fromisoformat(value)
    IN IF ~dt.aware THEN Aware(dt.wall, 0) ELSE dt

(* ------------------------------ records ------------------------------- *)

\* JSON null / Python None for web_link.
NoLink == "<None>"

\* models._ensure_tz: TRUE when it returns, FALSE when it raises ValueError.
_ensure_tz(dt) == dt.aware

\* TodoItem.__init__ with __post_init__: [ok, item]; ok = FALSE is the
\* ValueError of _ensure_tz.  A naive created_at is given UTC.
TodoItem(message_id, subject, sender, received_at, scheduled_for, body_preview, web_link, completed, created_at) ==
    [ok |-> _ensure_tz(received_at) /\ _ensure_tz(scheduled_for),
     item |-> [message_id |-> message_id,
               subject |-> subject,
               sender |-> sender,
               received_at |-> received_at,
               scheduled_for |-> scheduled_for,
               body_preview |-> body_preview,
               web_link |-> web_link,
               completed |-> completed,
               created_at |-> IF created_at.aware THEN created_at
                              ELSE Aware(created_at.wall, 0)]]

\* A bug to rule out: timestamps are normalised to UTC when serialised.
to_dict_utc(item) ==
    [message_id |-> item.message_id,
     subject |-> item.subject,
     sender |-> item.sender,
     received_at |-> isoformat(Aware(Instant(item.received_at), 0)),
     scheduled_for |-> isoformat(Aware(Instant(item.scheduled_for), 0)),
     body_preview |-> item.body_preview,
     web_link |-> item.web_link,
     completed |-> item.completed,
     created_at |-> isoformat(Aware(Instant(item.created_at), 0))]

\* TodoItem.to_dict
to_dict(item) ==
    [message_id |-> item.message_id,
     subject |-> item.subject,
     sender |-> item.sender,
     received_at |-> isoformat(item.received_at),
     scheduled_for |-> isoformat(item.scheduled_for),
     body_preview |-> item.body_preview,
     web_link |-> item.web_link,
     completed |-> item.completed,
     created_at |-> isoformat(item.created_at)]

\* TodoItem.from_dict: [ok, item].  Every document the store writes holds
\* all nine keys, so the defaults of payload.get are not taken.
from_dict(payload) ==
    TodoItem(payload.message_id, payload.subject, payload.sender,
             _parse_datetime(payload.received_at),
             _parse_datetime(payload.scheduled_for),
             payload.body_preview, payload.web_link, payload.completed,
             _parse_datetime(payload.created_at))

(* ------------------------------- store -------------------------------- *)
\* TodoStorage._items is a dict: a sequence of items with distinct
\* message_ids, in insertion order.

Keys(s) == {s[i].message_id : i \in 1..Len(s)}

\* TodoStorage.__contains__
contains(s, message_id) == message_id \in Keys(s)

IndexOf(s, message_id) == CHOOSE i \in 1..Len(s) : s[i].message_id = message_id

\* self._items[key] = item: a held key keeps its place, a new key goes last.
DictSet(s, item) ==
    IF contains(s, item.message_id)
    THEN [s EXCEPT ![IndexOf(s, item.message_id)] = item]
    ELSE Append(s, item)

\* del self._items[key]
DictDel(s, message_id) == SelectSeq(s, LAMBDA it : it.message_id # message_id)

\* TodoStorage.get: [found, item]; found = FALSE is None.
get(s, message_id) ==
    IF contains(s, message_id)
    THEN [found |-> TRUE, item |-> <<s[IndexOf(s, message_id)]>>]
    ELSE [found |-> FALSE, item |-> <<>>]

\* A bug to rule out: the overwrite flag is ignored and add always
\* replaces.
add_always_replaces(s, item, overwrite) == [ok |-> TRUE, items |-> DictSet(s, item)]

\* TodoStorage.add: [ok, items]; ok = FALSE is the KeyError.
add(s, item, overwrite) ==
    IF ~overwrite /\ contains(s, item.message_id)
    THEN [ok |-> FALSE, items |-> s]
    ELSE [ok |-> TRUE, items |-> DictSet(s, item)]

\* TodoStorage.update: [ok, items]; ok = FALSE is the KeyError.
update(s, item) ==
    IF ~contains(s, item.message_id)
    THEN [ok |-> FALSE, items |-> s]
    ELSE [ok |-> TRUE, items |-> DictSet(s, item)]

\* TodoStorage.remove
remove(s, message_id) == IF contains(s, message_id) THEN DictDel(s, message_id) ELSE s

\* sorted(..., key=...): stable, an item goes after every item whose key is
\* not greater.
RECURSIVE InsertByKey(_, _)
InsertByKey(sorted, item) ==
    IF sorted = <<>> THEN <<item>>
    ELSE IF Instant(item.scheduled_for) < Instant(Head(sorted).scheduled_for)
         THEN <<item>> \o sorted
         ELSE <<Head(sorted)>> \o InsertByKey(Tail(sorted), item)

RECURSIVE SortByScheduled(_, _)
SortByScheduled(sorted, rest) ==
    IF rest = <<>> THEN sorted
    ELSE SortByScheduled(InsertByKey(sorted, Head(rest)), Tail(rest))

\* A bug to rule out: the values are returned in dict order, unsorted.
all_unsorted(s) == s

\* TodoStorage.all
all(s) == SortByScheduled(<<>>, s)

\* A bug to rule out: save writes an empty document.
save_nothing(s) == [exists |-> TRUE, data |-> <<>>]

\* TodoStorage.save: the document written to self.path.
save(s) == [exists |-> TRUE, data |-> [i \in 1..Len(s) |-> to_dict(s[i])]]

\* The dict comprehension of TodoStorage._load over data[i..]
RECURSIVE LoadFrom(_, _)
LoadFrom(s, data) ==
    IF data = <<>> THEN s
    ELSE LoadFrom(DictSet(s, from_dict(Head(data)).item), Tail(data))

\* TodoStorage.__init__ with _load: [ok, items]; ok = FALSE when an element
\* of the document is rejected by TodoItem.
_load(d) ==
    IF ~d.exists THEN [ok |-> TRUE, items |-> <<>>]
    ELSE [ok |-> \A i \in 1..Len(d.data) : from_dict(d.data[i]).ok,
          items |-> LoadFrom(<<>>, d.data)]

(* ------------------------------ gateway ------------------------------- *)
\* A Graph message is [id, subject, fromName, fromAddress, hasReceived,
\* receivedDateTime, bodyPreview, webLink]; an absent or empty subject is
\* <<>>, an absent name or address is "", an absent webLink is NoLink.

\* GraphClient.extract_sender
extract_sender(message) ==
    IF message.fromName # "" THEN message.fromName
    ELSE IF message.fromAddress # "" THEN message.fromAddress
    ELSE "Unknown sender"

NoSubject == <<"(", "n", "o", " ", "s", "u", "b", "j", "e", "c", "t", ")">>

\* A bug to rule out: default_schedule is ignored.
to_todo_payload_received(message, hasDefault, default_schedule) ==
    LET received == parse_graph_datetime(message.receivedDateTime) IN
    [ok |-> message.hasReceived,
     message_id |-> message.id,
     subject |-> IF message.subject # <<>> THEN message.subject ELSE NoSubject,
     sender |-> extract_sender(message),
     received_at |-> received,
     scheduled_for |-> received,
     body_preview |-> message.bodyPreview,
     web_link |-> message.webLink]

\* GraphClient.to_todo_payload: [ok, ...]; ok = FALSE is the KeyError of
\* message["receivedDateTime"].
to_todo_payload(message, hasDefault, default_schedule) ==
    LET received == parse_graph_datetime(message.receivedDateTime) IN
    [ok |-> message.hasReceived,
     message_id |-> message.id,
     subject |-> IF message.subject # <<>> THEN message.subject ELSE NoSubject,
     sender |-> extract_sender(message),
     received_at |-> received,
     scheduled_for |-> IF hasDefault THEN default_schedule ELSE received,
     body_preview |-> message.bodyPreview,
     web_link |-> message.webLink]

(* ---------------------------- synchroniser ---------------------------- *)
\* A call's effect is [items, disk, outcome, result, trace]: the store and
\* the document it leaves, "ok" or the exception it raises, the records it
\* returns, and the calls it made on its collaborators, in order.

Event(ev, message_id) == [ev |-> ev, id |-> message_id]

\* A bug to rule out: the membership test is left out, so a held id is
\* imported again.
never_imported(s, message) == FALSE

\* "if message_id in self.storage: continue" of sync_unread_emails
already_imported(s, message) == contains(s, message.id)

\* A bug to rule out: the save is unconditional.
always_save(new_items) == TRUE

\* "if new_items:" of sync_unread_emails, guarding the save
should_save(new_items) == new_items # <<>>

\* The for loop of sync_unread_emails over the messages still to process;
\* st is [items, new_items, trace, outcome].
RECURSIVE SyncLoop(_, _, _, _, _)
SyncLoop(st, messages, hasSchedule, schedule_for, now) ==
    IF messages = <<>> THEN st
    ELSE
      LET message == Head(messages)
          payload == to_todo_payload(message, hasSchedule, schedule_for)
          todo == TodoItem(payload.message_id, payload.subject, payload.sender,
                           payload.received_at, payload.scheduled_for,
                           payload.body_preview, payload.web_link, FALSE, now)
      IN
      IF already_imported(st.items, message)
      THEN SyncLoop(st, Tail(messages), hasSchedule, schedule_for, now)
      ELSE IF ~payload.ok THEN [st EXCEPT !.outcome = "KeyError"]
      ELSE IF ~todo.ok THEN [st EXCEPT !.outcome = "ValueError"]
      ELSE SyncLoop([items |-> add(st.items, todo.item, TRUE).items,
                     new_items |-> Append(st.new_items, todo.item),
                     trace |-> Append(st.trace, Event("add", message.id)),
                     outcome |-> "ok"],
                    Tail(messages), hasSchedule, schedule_for, now)

\* OutlookTodoApp.sync_unread_emails on store s and document d; fetchOk and
\* messages are the gateway's answer to fetch_unread_emails, now is the
\* clock read by the records created.
sync_unread_emails(s, d, fetchOk, messages, hasSchedule, schedule_for, now) ==
    LET start == [items |-> s, new_items |-> <<>>,
                  trace |-> <<Event("fetch", <<>>)>>, outcome |-> "ok"]
        st == SyncLoop(start, messages, hasSchedule, schedule_for, now)
    IN
    IF ~fetchOk
    THEN [items |-> s, disk |-> d, outcome |-> "GraphApiError",
          result |-> <<>>, trace |-> start.trace]
    ELSE IF st.outcome # "ok"
    THEN [items |-> st.items, disk |-> d, outcome |-> st.outcome,
          result |-> <<>>, trace |-> st.trace]
    ELSE IF should_save(st.new_items)
    THEN [items |-> st.items, disk |-> save(st.items), outcome |-> "ok",
          result |-> st.new_items, trace |-> Append(st.trace, Event("save", <<>>))]
    ELSE [items |-> st.items, disk |-> d, outcome |-> "ok",
          result |-> <<>>, trace |-> st.trace]

\* A bug to rule out: the early return for a completed item is left out.
never_completed(item) == FALSE

\* "if item.completed: return item" of mark_done
already_completed(item) == item.completed

\* Bugs to rule out: the flip made before the gateway call; the save
\* forgotten.
FlipFirstSteps == <<"flip", "mark_read", "update", "save">>
NoSaveSteps == <<"mark_read", "flip", "update">>

\* The statements of mark_done after its two early returns, in program
\* order: mark_email_as_read, item.completed = True, storage.update,
\* storage.save.
MarkDoneSteps == <<"mark_read", "flip", "update", "save">>

\* One statement of mark_done on st = [items, disk, outcome, trace]; item is
\* the object storage.get returned, which the store holds.
MarkDoneStep(st, step, item, readOk) ==
    LET held == get(st.items, item.message_id).item[1]
        tr == Append(st.trace, Event(step, item.message_id))
    IN
    CASE step = "mark_read" ->
           [st EXCEPT !.trace = tr,
                      !.outcome = IF readOk THEN "ok" ELSE "GraphApiError"]
      [] step = "flip" ->
           [st EXCEPT !.trace = tr,
                      !.items = DictSet(st.items, [held EXCEPT !.completed = TRUE])]
      [] step = "update" ->
           [st EXCEPT !.trace = tr,
                      !.items = update(st.items, held).items,
                      !.outcome = IF update(st.items, held).ok THEN "ok" ELSE "KeyError"]
      [] step = "save" ->
           [st EXCEPT !.trace = Append(st.trace, Event("save", <<>>)),
                      !.disk = save(st.items)]

\* The statements run in order until one raises.
RECURSIVE RunMarkDone(_, _, _, _)
RunMarkDone(st, steps, item, readOk) ==
    IF steps = <<>> \/ st.outcome # "ok" THEN st
    ELSE RunMarkDone(MarkDoneStep(st, Head(steps), item, readOk), Tail(steps), item, readOk)

\* OutlookTodoApp.mark_done; readOk is whether the gateway's
\* mark_email_as_read returns (TRUE) or raises GraphApiError.
mark_done(s, d, message_id, readOk) ==
    LET found == get(s, message_id)
        item == found.item[1]
        st == RunMarkDone([items |-> s, disk |-> d, outcome |-> "ok", trace |-> <<>>],
                          MarkDoneSteps, item, readOk)
    IN
    IF ~found.found
    THEN [items |-> s, disk |-> d, outcome |-> "KeyError",
          result |-> <<>>, trace |-> <<>>]
    ELSE IF already_completed(item)
    THEN [items |-> s, disk |-> d, outcome |-> "ok",
          result |-> <<item>>, trace |-> <<>>]
    ELSE [items |-> st.items, disk |-> st.disk, outcome |-> st.outcome,
          result |-> IF st.outcome = "ok" THEN get(st.items, message_id).item ELSE <<>>,
          trace |-> st.trace]

ManualPrefix == <<"m", "a", "n", "u", "a", "l", "-">>

\* A bug to rule out: every manual record is filed under the first manual id.
manual_id_first(s) == ManualPrefix \o IntText(1)

\* f"manual-{len(self.storage.all())+1}" of add_manual_item
manual_id(s) == ManualPrefix \o IntText(Len(all(s)) + 1)

\* OutlookTodoApp.add_manual_item
add_manual_item(s, d, subject, sender, scheduled_for, body_preview, web_link, now) ==
    LET message_id == manual_id(s)
        todo == TodoItem(message_id, subject, sender, scheduled_for, scheduled_for,
                         body_preview, web_link, FALSE, now)
    IN
    IF ~todo.ok
    THEN [items |-> s, disk |-> d, outcome |-> "ValueError",
          result |-> <<>>, trace |-> <<>>]
    ELSE [items |-> add(s, todo.item, TRUE).items,
          disk |-> save(add(s, todo.item, TRUE).items),
          outcome |-> "ok",
          result |-> <<todo.item>>,
          trace |-> <<Event("add", message_id), Event("save", <<>>)>>]

(* ------------------------------ exporter ------------------------------ *)

\* markdown.format_datetime: the local wall-clock minute and zone name; the
\* local zone of the model is UTC.
format_datetime(value) == [wall |-> Instant(value), zone |-> "UTC"]

\* markdown.item_to_markdown: the title, the four bullets, the link line
\* ("" when web_link is None or empty: no line) and the preview section
\* ("" when body_preview is empty: no section).
item_to_markdown(item) ==
    [title |-> IF item.subject # <<>> THEN item.subject ELSE NoSubject,
     sender |-> item.sender,
     received |-> format_datetime(item.received_at),
     scheduled |-> format_datetime(item.scheduled_for),
     status |-> IF item.completed THEN "Done" ELSE "Pending",
     link |-> IF item.web_link = NoLink THEN "" ELSE item.web_link,
     preview |-> item.body_preview]

\* The characters re.sub(r"[^A-Za-z0-9._-]", "_", value) keeps.
SafeChars == Lower \cup Upper \cup Digits \cup {".", "_", "-"}

\* export_active_markdown._safe_component
_safe_component(value) ==
    LET v == IF Strip(value) # <<>> THEN Strip(value) ELSE <<"t", "a", "s", "k">>
    IN [i \in 1..Len(v) |-> IF v[i] \in SafeChars THEN v[i] ELSE "_"]

MdSuffix == <<".", "m", "d">>

\* export_active_markdown._filename_for
_filename_for(item) ==
    _safe_component(item.subject) \o <<"-">> \o _safe_component(item.message_id) \o MdSuffix

\* Path.glob("*.md") on a file name
IsMd(name) ==
    Len(name) >= Len(MdSuffix)
    /\ SubSeq(name, Len(name) - Len(MdSuffix) + 1, Len(name)) = MdSuffix

\* The characters of the model in code point order; str and Path compare
\* by code point.
CodePoints ==
    <<"\t", "\n", " ", "(", ")", "-", ".", "/",
      "0", "1", "2", "3", "4", "5", "6", "7", "8", "9",
      "A", "B", "C", "D", "E", "F", "G", "H", "I", "J", "K", "L", "M",
      "N", "O", "P", "Q", "R", "S", "T", "U", "V", "W", "X", "Y", "Z", "_",
      "a", "b", "c", "d", "e", "f", "g", "h", "i", "j", "k", "l", "m",
      "n", "o", "p", "q", "r", "s", "t", "u", "v", "w", "x", "y", "z">>

Ord(c) == CHOOSE i \in 1..Len(CodePoints) : CodePoints[i] = c

RECURSIVE TextLess(_, _)
TextLess(a, b) ==
    IF b = <<>> THEN FALSE
    ELSE IF a = <<>> THEN TRUE
    ELSE IF Head(a) = Head(b) THEN TextLess(Tail(a), Tail(b))
    ELSE Ord(Head(a)) < Ord(Head(b))

RECURSIVE InsertPath(_, _)
InsertPath(sorted, path) ==
    IF sorted = <<>> THEN <<path>>
    ELSE IF TextLess(path, Head(sorted)) THEN <<path>> \o sorted
    ELSE <<Head(sorted)>> \o InsertPath(Tail(sorted), path)

RECURSIVE SortPaths(_, _)
SortPaths(sorted, rest) ==
    IF rest = <<>> THEN sorted
    ELSE SortPaths(InsertPath(sorted, Head(rest)), Tail(rest))

\* path.write_text(content) in directory files
WriteText(files, name, content) ==
    [n \in (DOMAIN files) \cup {name} |-> IF n = name THEN content ELSE files[n]]

\* The write loop of export_active_markdown; st is [files, written].
RECURSIVE WriteLoop(_, _)
WriteLoop(st, active_items) ==
    IF active_items = <<>> THEN st
    ELSE WriteLoop(
           [files |-> WriteText(st.files, _filename_for(Head(active_items)),
                                item_to_markdown(Head(active_items))),
            written |-> Append(st.written, _filename_for(Head(active_items)))],
           Tail(active_items))

\* A bug to rule out: files of earlier exports are never unlinked.
no_stale_files(existing_files, written) == {}

\* "existing_files - set(written_paths)": the files export_active_markdown
\* unlinks.
stale_files(existing_files, written) == existing_files \ written

\* OutlookTodoApp.export_active_markdown on store s into a directory that
\* holds files: [files, paths], the directory afterwards and the list
\* returned.
export_active_markdown(s, files) ==
    LET active_items == SelectSeq(all(s), LAMBDA item : ~item.completed)
        st == WriteLoop([files |-> files, written |-> <<>>], active_items)
        written == {st.written[i] : i \in 1..Len(st.written)}
        existing_files == {n \in DOMAIN st.files : IsMd(n)}
        kept == (DOMAIN st.files) \ stale_files(existing_files, written)
    IN [files |-> [n \in kept |-> st.files[n]],
        paths |-> SortPaths(<<>>, st.written)]

(* ------------------------------- inputs ------------------------------- *)

Procs == {"p1", "p2"}

\* The messages the gateway may return.  Msg1 and Msg2 were received at the
\* same instant and Msg2's timestamp has no offset; Msg3 has neither subject
\* nor sender, and no receivedDateTime.
Msg1 ==
    [id |-> <<"a", "/", "b">>, subject |-> <<"T">>, fromName |-> "Alice",
     fromAddress |-> "", hasReceived |-> TRUE,
     receivedDateTime |-> [wall |-> 600, suffix |-> <<"Z">>],
     bodyPreview |-> "", webLink |-> NoLink]
Msg2 ==
    [id |-> <<"a", "_", "b">>, subject |-> <<"T">>, fromName |-> "",
     fromAddress |-> "bob@example", hasReceived |-> TRUE,
     receivedDateTime |-> [wall |-> 600, suffix |-> <<>>],
     bodyPreview |-> "Hello", webLink |-> "https://outlook.example/2"]
Msg3 ==
    [id |-> <<"d">>, subject |-> <<>>, fromName |-> "",
     fromAddress |-> "", hasReceived |-> FALSE,
     receivedDateTime |-> [wall |-> 0, suffix |-> <<>>],
     bodyPreview |-> "", webLink |-> NoLink]

Mailbox == {Msg1, Msg2, Msg3}

\* What fetch_unread_emails may return: up to MaxFetch messages, in any
\* order, the same message possibly twice.
FetchLists == UNION {[1..n -> Mailbox] : n \in 0..MaxFetch}

\* schedule_for: None, an aware datetime or a naive one.
Schedules ==
    {[has |-> FALSE, at |-> Naive(0)],
     [has |-> TRUE, at |-> Aware(720, 60)],
     [has |-> TRUE, at |-> Naive(720)]}

\* datetime.now(timezone.utc)
NowTimes == {Aware(900, 0)}

ManualSubjects == {<<" ">>}
ManualSchedules == {Aware(600, 0), Naive(600)}

\* The ids mark_done and remove are called with.
CallIds ==
    {m.id : m \in Mailbox} \cup {ManualPrefix \o IntText(n) : n \in 1..MaxItems}

\* The records the Store API is called with: two records under one id,
\* one scheduled at the instant of another, offsets east and west of UTC.
SampleItems ==
    {TodoItem(<<"c">>, <<"T">>, "s", Aware(600, 0), Aware(600, 0), "", NoLink, FALSE, Aware(900, 0)).item,
     TodoItem(<<"c">>, <<"U">>, "s", Aware(600, 0), Aware(720, 60), "p", "l", TRUE, Naive(930)).item,
     TodoItem(<<"a">>, <<"T">>, "s", Aware(510, -90), Aware(660, 60), "", NoLink, FALSE, Aware(900, 0)).item,
     TodoItem(<<"b">>, <<"T">>, "s", Aware(510, -90), Aware(500, -90), "", NoLink, TRUE, Aware(900, 0)).item}

StaleContent ==
    item_to_markdown(TodoItem(<<"z">>, <<"old">>, "s", Aware(0, 0), Aware(0, 0), "", NoLink, FALSE, Aware(0, 0)).item)

\* What the document and the export directory may hold when the program
\* starts.
InitialDocs == {[exists |-> FALSE, data |-> <<>>]}
InitialDirs ==
    {[n \in {<<"o", "l", "d">> \o MdSuffix, <<"n", "o", "t", "e", "s">>} |-> StaleContent]}

(* ------------------------------ actions ------------------------------- *)

NoOp ==
    [op |-> "init", proc |-> "p1", outcome |-> "ok", id |-> <<>>,
     overwrite |-> FALSE, present |-> FALSE, wasDone |-> FALSE,
     arg |-> <<>>, result |-> <<>>, paths |-> <<>>, trace |-> <<>>,
     fetched |-> <<>>, repeat |-> FALSE]

Init ==
    /\ disk \in InitialDocs
    /\ dir \in InitialDirs
    /\ items = [p \in Procs |-> _load(disk).items]
    /\ lastOp = NoOp

\* A call of sync_unread_emails by process p (cli.handle_sync).  lastOp
\* keeps the messages fetched and, for a call that returned records, the
\* schedule_for it was given (<<>> for None).
Sync(p, fetches, schedules) ==
    \E fetchOk \in BOOLEAN, messages \in fetches, sch \in schedules, now \in NowTimes :
      /\ fetchOk \/ messages = <<>>
      /\ \E eff \in {sync_unread_emails(items[p], disk, fetchOk, messages, sch.has, sch.at, now)} :
           /\ Len(eff.items) <= MaxItems
           /\ items' = [items EXCEPT ![p] = eff.items]
           /\ disk' = eff.disk
           /\ dir' = dir
           /\ lastOp' = [NoOp EXCEPT !.op = "sync", !.proc = p,
                           !.outcome = eff.outcome, !.result = eff.result,
                           !.trace = eff.trace,
                           !.fetched = IF fetchOk THEN messages ELSE <<>>,
                           !.arg = IF eff.result # <<>> /\ sch.has THEN <<sch.at>> ELSE <<>>,
                           !.repeat = /\ fetchOk
                                      /\ lastOp.op = "sync"
                                      /\ lastOp.proc = p
                                      /\ lastOp.outcome = "ok"
                                      /\ lastOp.fetched = messages]

\* A call of mark_done by process p (cli.handle_mark_done).
MarkDone(p) ==
    \E message_id \in CallIds, readOk \in BOOLEAN :
      LET eff == mark_done(items[p], disk, message_id, readOk)
          found == get(items[p], message_id)
      IN
      /\ items' = [items EXCEPT ![p] = eff.items]
      /\ disk' = eff.disk
      /\ dir' = dir
      /\ lastOp' = [NoOp EXCEPT !.op = "mark_done", !.proc = p, !.id = message_id,
                      !.outcome = eff.outcome, !.result = eff.result,
                      !.trace = eff.trace,
                      !.present = found.found,
                      !.wasDone = found.found /\ found.item[1].completed]

\* A call of add_manual_item by process p.
AddManualItem(p) ==
    \E subject \in ManualSubjects, scheduled_for \in ManualSchedules, now \in NowTimes :
      LET eff == add_manual_item(items[p], disk, subject, "me", scheduled_for, "", NoLink, now)
          message_id == manual_id(items[p])
      IN
      /\ Len(eff.items) <= MaxItems
      /\ items' = [items EXCEPT ![p] = eff.items]
      /\ disk' = eff.disk
      /\ dir' = dir
      /\ lastOp' = [NoOp EXCEPT !.op = "add_manual_item", !.proc = p,
                      !.id = message_id,
                      !.outcome = eff.outcome, !.result = eff.result,
                      !.trace = eff.trace,
                      !.present = contains(items[p], message_id)]

\* A call of export_active_markdown by process p
\* (cli.handle_export_active_markdown).
ExportActive(p) ==
    LET out == export_active_markdown(items[p], dir) IN
    /\ dir' = out.files
    /\ UNCHANGED <<items, disk>>
    /\ lastOp' = [NoOp EXCEPT !.op = "export_active", !.proc = p, !.paths = out.paths]

\* Process p constructs its TodoStorage from the path again (cli._create_app
\* at the start of each invocation).
Reopen(p) ==
    LET loaded == _load(disk) IN
    /\ items' = [items EXCEPT ![p] = IF loaded.ok THEN loaded.items ELSE items[p]]
    /\ UNCHANGED <<disk, dir>>
    /\ lastOp' = [NoOp EXCEPT !.op = "open", !.proc = p,
                    !.outcome = IF loaded.ok THEN "ok" ELSE "ValueError"]

\* One process using the application.
Next ==
    \/ Sync("p1", FetchLists, Schedules)
    \/ MarkDone("p1")
    \/ AddManualItem("p1")
    \/ Reopen("p1")

Spec == Init /\ [][Next]_vars

(* ------------------------- the Store API alone ------------------------ *)

\* A call of TodoStorage.add by process p.
Add(p) ==
    \E item \in SampleItems, overwrite \in BOOLEAN :
      LET r == add(items[p], item, overwrite) IN
      /\ Len(r.items) <= MaxItems
      /\ items' = [items EXCEPT ![p] = r.items]
      /\ UNCHANGED <<disk, dir>>
      /\ lastOp' = [NoOp EXCEPT !.op = "add", !.proc = p, !.id = item.message_id,
                      !.overwrite = overwrite, !.arg = <<item>>,
                      !.present = contains(items[p], item.message_id),
                      !.outcome = IF r.ok THEN "ok" ELSE "KeyError"]

\* A call of TodoStorage.update by process p.
Update(p) ==
    \E item \in SampleItems :
      LET r == update(items[p], item) IN
      /\ items' = [items EXCEPT ![p] = r.items]
      /\ UNCHANGED <<disk, dir>>
      /\ lastOp' = [NoOp EXCEPT !.op = "update", !.proc = p, !.id = item.message_id,
                      !.arg = <<item>>,
                      !.present = contains(items[p], item.message_id),
                      !.outcome = IF r.ok THEN "ok" ELSE "KeyError"]

\* A call of TodoStorage.remove by process p.
Remove(p, ids) ==
    \E message_id \in ids :
      /\ items' = [items EXCEPT ![p] = remove(items[p], message_id)]
      /\ UNCHANGED <<disk, dir>>
      /\ lastOp' = [NoOp EXCEPT !.op = "remove", !.proc = p, !.id = message_id,
                      !.present = contains(items[p], message_id)]

\* A call of TodoStorage.save by process p.
Save(p) ==
    /\ disk' = save(items[p])
    /\ UNCHANGED <<items, dir>>
    /\ lastOp' = [NoOp EXCEPT !.op = "save", !.proc = p,
                    !.trace = <<Event("save", <<>>)>>]

\* One process using the Store API.
NextStore ==
    \/ Add("p1")
    \/ Update("p1")
    \/ Remove("p1", {item.message_id : item \in SampleItems})
    \/ Save("p1")
    \/ Reopen("p1")

SpecStore == Init /\ [][NextStore]_vars

(* ----------------------- the exporter in its place -------------------- *)

\* The fetches of messages the gateway's contract allows, each once.
CleanFetches ==
    {f \in FetchLists :
        /\ \A i \in 1..Len(f) : f[i].hasReceived
        /\ \A i, j \in 1..Len(f) : f[i] = f[j] => i = j}

\* One process importing, completing, adding and exporting.
NextExport ==
    \/ Sync("p1", CleanFetches, Schedules)
    \/ MarkDone("p1")
    \/ AddManualItem("p1")
    \/ ExportActive("p1")

SpecExport == Init /\ [][NextExport]_vars

(* ------------------- two processes on one storage path ---------------- *)

\* The sync command without --schedule: schedule_for is None.
NoSchedule == {sch \in Schedules : ~sch.has}

\* Two invocations of the program on the same storage path: each has its
\* own TodoStorage, loaded from the document when the process constructs
\* it, and runs sync and mark_done; nothing orders their calls.
NextRace ==
    \E p \in Procs :
        \/ Reopen(p)
        \/ Sync(p, CleanFetches, NoSchedule)
        \/ MarkDone(p)

SpecRace == Init /\ [][NextRace]_vars

(* ------------------ the application and Store.remove ----------------- *)

\* One process importing, adding manual records, completing, and removing
\* records through the Store.
NextManual ==
    \/ Sync("p1", CleanFetches, NoSchedule)
    \/ AddManualItem("p1")
    \/ MarkDone("p1")
    \/ Remove("p1", CallIds)

SpecManual == Init /\ [][NextManual]_vars

(* ------------------------- the Record alone --------------------------- *)

\* The timestamps a caller may pass to TodoItem: aware ones at, east and
\* west of UTC, and a naive one.
TimestampInputs == {Aware(600, 0), Aware(720, 60), Aware(510, -90), Naive(600)}

\* The timestamp texts a document may hold: what isoformat writes for those
\* timestamps, and the "Z" form.
TimestampTexts ==
    {isoformat(t) : t \in TimestampInputs} \cup {[wall |-> 600, suffix |-> <<"Z">>]}

\* TodoItem(...) called with the three timestamps; lastOp.arg keeps the
\* arguments, lastOp.result the record constructed.
Construct(p) ==
    \E received_at \in TimestampInputs, scheduled_for \in TimestampInputs,
       created_at \in TimestampInputs, completed \in BOOLEAN :
      LET r == TodoItem(<<"c">>, <<"T">>, "s", received_at, scheduled_for,
                        "", NoLink, completed, created_at)
      IN
      /\ UNCHANGED <<items, disk, dir>>
      /\ lastOp' = [NoOp EXCEPT !.op = "construct", !.proc = p, !.id = <<"c">>,
                      !.arg = <<[received_at |-> received_at,
                                 scheduled_for |-> scheduled_for,
                                 created_at |-> created_at]>>,
                      !.outcome = IF r.ok THEN "ok" ELSE "ValueError",
                      !.result = IF r.ok THEN <<r.item>> ELSE <<>>]

\* TodoItem.from_dict called on one element of a document.
Deserialize(p) ==
    \E received_at \in TimestampTexts, scheduled_for \in TimestampTexts,
       created_at \in TimestampTexts, completed \in BOOLEAN :
      LET payload == [message_id |-> <<"c">>, subject |-> <<"T">>, sender |-> "s",
                      received_at |-> received_at, scheduled_for |-> scheduled_for,
                      body_preview |-> "", web_link |-> NoLink,
                      completed |-> completed, created_at |-> created_at]
          r == from_dict(payload)
      IN
      /\ UNCHANGED <<items, disk, dir>>
      /\ lastOp' = [NoOp EXCEPT !.op = "deserialize", !.proc = p, !.id = <<"c">>,
                      !.arg = <<[received_at |-> _parse_datetime(received_at),
                                 scheduled_for |-> _parse_datetime(scheduled_for),
                                 created_at |-> _parse_datetime(created_at)]>>,
                      !.outcome = IF r.ok THEN "ok" ELSE "ValueError",
                      !.result = IF r.ok THEN <<r.item>> ELSE <<>>]

NextRecord ==
    \/ Construct("p1")
    \/ Deserialize("p1")

SpecRecord == Init /\ [][NextRecord]_vars

(* ============================== claims =============================== *)

\* The events of one kind among the calls an operation made.
EventsOf(trace, ev) == SelectSeq(trace, LAMBDA e : e.ev = ev)

\* The entries of a persisted document under one message_id.
Persisted(d, message_id) == SelectSeq(d.data, LAMBDA e : e.message_id = message_id)

(* ------------------------------- C1 ---------------------------------- *)
\* C1: idempotent sync.  When sync is called again with the list of messages
\* the preceding sync call fetched and returned from, it returns the empty
\* sequence and leaves the store (keys, size, every record) and the
\* persisted document as they were after the first call.
C1_IdempotentSync ==
    [][
        (lastOp'.op = "sync" /\ lastOp'.repeat) =>
            /\ lastOp'.outcome = "ok"
            /\ lastOp'.result = <<>>
            /\ items' = items
            /\ disk' = disk
    ]_vars

\* A second sync of a snapshot of several messages, all of them held.
C1_Witness ==
    /\ lastOp.op = "sync"
    /\ lastOp.repeat
    /\ Len(lastOp.fetched) >= 2
    /\ \A i \in 1..Len(lastOp.fetched) : contains(items[lastOp.proc], lastOp.fetched[i].id)
    /\ Len(items[lastOp.proc]) >= 2

(* ------------------------------- C2 ---------------------------------- *)
\* C2: a failed mark_done never mutates local state.  On an absent id it
\* raises the not-found error (KeyError) without any gateway call; when the
\* gateway's mark_read raises, the error propagates, store and document are
\* what they were, the record is completed in neither, no save was made,
\* and in every call the flip comes only after a mark_read.
C2_FailedMarkDoneKeepsState ==
    [][
        lastOp'.op = "mark_done" =>
            LET p == lastOp'.proc
                id == lastOp'.id
                tr == lastOp'.trace
            IN
            /\ ~lastOp'.present =>
                  /\ lastOp'.outcome = "KeyError"
                  /\ tr = <<>>
            /\ lastOp'.outcome # "ok" =>
                  /\ items' = items
                  /\ disk' = disk
                  /\ EventsOf(tr, "save") = <<>>
                  /\ EventsOf(tr, "flip") = <<>>
            /\ lastOp'.outcome = "GraphApiError" =>
                  /\ lastOp'.present
                  /\ ~get(items'[p], id).item[1].completed
                  /\ \A i \in 1..Len(disk'.data) :
                        disk'.data[i].message_id = id => ~disk'.data[i].completed
            /\ \A i \in 1..Len(tr) :
                  tr[i].ev = "flip" => \E j \in 1..(i - 1) : tr[j] = Event("mark_read", id)
    ]_vars

\* mark_done on a pending, persisted record, refused by the gateway.
C2_Witness ==
    /\ lastOp.op = "mark_done"
    /\ lastOp.outcome = "GraphApiError"
    /\ lastOp.trace = <<Event("mark_read", lastOp.id)>>
    /\ Persisted(disk, lastOp.id) # <<>>

(* ------------------------------- C3 ---------------------------------- *)
\* C3: idempotent completion.  mark_done on an id whose record is already
\* completed returns the record held, calls neither the gateway nor save,
\* and leaves store and document unchanged.
C3_IdempotentCompletion ==
    [][
        (lastOp'.op = "mark_done" /\ lastOp'.wasDone) =>
            /\ lastOp'.outcome = "ok"
            /\ lastOp'.result = get(items[lastOp'.proc], lastOp'.id).item
            /\ lastOp'.trace = <<>>
            /\ items' = items
            /\ disk' = disk
    ]_vars

C3_Witness ==
    /\ lastOp.op = "mark_done"
    /\ lastOp.wasDone
    /\ lastOp.result # <<>>
    /\ lastOp.result[1].completed

(* ------------------------------- C4 ---------------------------------- *)
\* C4: a successful mark_done(id) on a pending record calls the gateway's
\* mark_read exactly once, with that id, and leaves the record completed in
\* the store and in the persisted document; every mark_done(id) after it
\* finds the record completed, calls mark_read no more and keeps it
\* completed, so the calls for id stay at one.
C4_MarkReadOnce ==
    [][
        lastOp'.op = "mark_done" =>
            LET p == lastOp'.proc
                id == lastOp'.id
                reads == EventsOf(lastOp'.trace, "mark_read")
            IN
            /\ (lastOp'.present /\ ~lastOp'.wasDone /\ lastOp'.outcome = "ok") =>
                  /\ reads = <<Event("mark_read", id)>>
                  /\ get(items'[p], id).item[1].completed
                  /\ Len(Persisted(disk', id)) = 1
                  /\ Persisted(disk', id)[1].completed
                  /\ get(_load(disk').items, id).item = get(items'[p], id).item
            /\ lastOp'.wasDone =>
                  /\ reads = <<>>
                  /\ get(items'[p], id).item[1].completed
    ]_vars

\* A first, successful mark_done of a record.
C4_Witness ==
    /\ lastOp.op = "mark_done"
    /\ lastOp.present
    /\ ~lastOp.wasDone
    /\ lastOp.outcome = "ok"
    /\ Len(items[lastOp.proc]) >= 2

(* ------------------------------- C5 ---------------------------------- *)
\* C5: save-on-change in sync.  A sync call that returns new records has
\* called save exactly once, as its last call, after an insert for each of
\* them, and the document holds the store; a sync call that returns none has
\* not called save and leaves document and store untouched; a sync call
\* that raises has not called save either.
C5_SaveOnChange ==
    [][
        lastOp'.op = "sync" =>
            LET p == lastOp'.proc
                tr == lastOp'.trace
                saves == EventsOf(tr, "save")
                adds == EventsOf(tr, "add")
            IN
            /\ (lastOp'.outcome = "ok" /\ lastOp'.result # <<>>) =>
                  /\ Len(saves) = 1
                  /\ tr[Len(tr)].ev = "save"
                  /\ Len(adds) = Len(lastOp'.result)
                  /\ disk' = save(items'[p])
            /\ (lastOp'.outcome = "ok" /\ lastOp'.result = <<>>) =>
                  /\ saves = <<>>
                  /\ adds = <<>>
                  /\ disk' = disk
                  /\ items' = items
            /\ lastOp'.outcome # "ok" =>
                  /\ saves = <<>>
                  /\ disk' = disk
    ]_vars

\* A sync that imported two records with one save.
C5_Witness ==
    /\ lastOp.op = "sync"
    /\ Len(lastOp.result) >= 2
    /\ EventsOf(lastOp.trace, "save") = <<Event("save", <<>>)>>

(* ------------------------------- C6 ---------------------------------- *)
\* The records of a store that are not completed, and the *.md files of a
\* directory.
ActiveItems(s) == {s[i] : i \in {j \in 1..Len(s) : ~s[j].completed}}
MdFiles(files) == {n \in DOMAIN files : IsMd(n)}

\* C6: export mirroring.  After export_active the *.md files of the
\* directory are exactly the file names of the active records, whatever
\* *.md files it held before, and the list returned names exactly them;
\* with no active record nothing is written, the list is empty and no *.md
\* file is left.
C6_ExportMirrors ==
    [][
        lastOp'.op = "export_active" =>
            LET active == ActiveItems(items'[lastOp'.proc])
                returned == {lastOp'.paths[i] : i \in 1..Len(lastOp'.paths)}
            IN
            /\ MdFiles(dir') = {_filename_for(r) : r \in active}
            /\ returned = MdFiles(dir')
            /\ active = {} =>
                  /\ lastOp'.paths = <<>>
                  /\ MdFiles(dir') = {}
                  /\ \A n \in DOMAIN dir' : n \in DOMAIN dir /\ dir'[n] = dir[n]
    ]_vars

\* An export with no active record left, from a store that holds records,
\* into a directory that held *.md files.
C6_Witness ==
    /\ lastOp.op = "export_active"
    /\ items[lastOp.proc] # <<>>
    /\ ActiveItems(items[lastOp.proc]) = {}
    /\ MdFiles(dir) = {}
    /\ dir # <<>>

(* ------------------------------- C7 ---------------------------------- *)
\* C7: one Markdown file per active record.  After export_active the
\* directory holds as many *.md files as there are active records, two
\* active records with distinct message_ids have distinct file names, and
\* the file of each active record holds the rendering of that record.
C7_OneFilePerActiveRecord ==
    lastOp.op = "export_active" =>
        LET active == ActiveItems(items[lastOp.proc]) IN
        /\ Cardinality(MdFiles(dir)) = Cardinality(active)
        /\ \A r, q \in active :
              r.message_id # q.message_id => _filename_for(r) # _filename_for(q)
        /\ \A r \in active :
              /\ _filename_for(r) \in DOMAIN dir
              /\ dir[_filename_for(r)] = item_to_markdown(r)

(* ------------------------------- C8 ---------------------------------- *)
\* The records of a store other than the one under message_id, in order.
Others(s, message_id) == SelectSeq(s, LAMBDA it : it.message_id # message_id)

\* C8: Store.add.  With overwrite false on a held id it raises the
\* duplicate-key error (KeyError) and the store is unchanged; on an absent
\* id it inserts the record; with overwrite true on a held id it replaces
\* the held record and the size stays; no other record is touched.
C8_AddContract ==
    [][
        lastOp'.op = "add" =>
            LET p == lastOp'.proc
                item == lastOp'.arg[1]
            IN
            /\ (lastOp'.present /\ ~lastOp'.overwrite) =>
                  /\ lastOp'.outcome = "KeyError"
                  /\ items' = items
            /\ ~lastOp'.present =>
                  /\ lastOp'.outcome = "ok"
                  /\ items'[p] = Append(items[p], item)
            /\ (lastOp'.present /\ lastOp'.overwrite) =>
                  /\ lastOp'.outcome = "ok"
                  /\ get(items'[p], item.message_id).item = <<item>>
                  /\ Len(items'[p]) = Len(items[p])
                  /\ Others(items'[p], item.message_id) = Others(items[p], item.message_id)
    ]_vars

\* A refused add of a record that differs from the record held for its id.
C8_Witness ==
    /\ lastOp.op = "add"
    /\ lastOp.present
    /\ ~lastOp.overwrite
    /\ lastOp.outcome = "KeyError"
    /\ get(items[lastOp.proc], lastOp.id).item # lastOp.arg

(* ------------------------------- C9 ---------------------------------- *)
\* Every record of s is in r exactly once, and r holds nothing else.
ExactlyOnce(r, s) ==
    /\ Len(r) = Len(s)
    /\ \A i \in 1..Len(s) : Cardinality({j \in 1..Len(r) : r[j] = s[i]}) = 1

\* C9 as stated: all() returns every held record exactly once, ascending by
\* scheduled_for, records of equal scheduled_for in ascending message_id
\* order, whatever the order they were added or loaded in.
C9_SortedTiesById ==
    LET s == items[lastOp.proc]
        r == all(s)
    IN
    /\ ExactlyOnce(r, s)
    /\ \A i, j \in 1..Len(r) :
          i < j =>
            /\ Instant(r[i].scheduled_for) <= Instant(r[j].scheduled_for)
            /\ Instant(r[i].scheduled_for) = Instant(r[j].scheduled_for)
                 => TextLess(r[i].message_id, r[j].message_id)

\* C9 amended: all() returns every held record exactly once, ascending by
\* scheduled_for, records of equal scheduled_for in the order their
\* message_ids were first added or loaded.
C9_SortedTiesByInsertion ==
    LET s == items[lastOp.proc]
        r == all(s)
    IN
    /\ ExactlyOnce(r, s)
    /\ \A i, j \in 1..Len(r) :
          i < j =>
            /\ Instant(r[i].scheduled_for) <= Instant(r[j].scheduled_for)
            /\ Instant(r[i].scheduled_for) = Instant(r[j].scheduled_for)
                 => IndexOf(s, r[i].message_id) < IndexOf(s, r[j].message_id)

\* Two records of equal scheduled_for, written at different offsets, the
\* greater message_id added first and returned first.
C9_Witness ==
    LET r == all(items[lastOp.proc]) IN
    /\ Len(r) >= 2
    /\ Instant(r[1].scheduled_for) = Instant(r[2].scheduled_for)
    /\ r[1].scheduled_for # r[2].scheduled_for
    /\ TextLess(r[2].message_id, r[1].message_id)

(* ------------------------------- C10 --------------------------------- *)
\* C10: the persisted document changes only when save is called.  add,
\* update and remove leave the document as it was; after save, a store
\* constructed from the path loads without error and holds exactly the
\* records held in memory, every field equal, in the same order.
C10_SaveRoundTrip ==
    [][
        /\ lastOp'.op \in {"add", "update", "remove"} => disk' = disk
        /\ disk' # disk => lastOp'.op = "save"
        /\ lastOp'.op = "save" =>
              /\ disk'.exists
              /\ _load(disk').ok
              /\ _load(disk').items = items'[lastOp'.proc]
    ]_vars

\* A save of a store that holds a completed record with timestamps off UTC,
\* after which the document is no longer the one first saved.
C10_Witness ==
    /\ lastOp.op = "save"
    /\ \E i \in 1..Len(items[lastOp.proc]) :
          /\ items[lastOp.proc][i].completed
          /\ items[lastOp.proc][i].scheduled_for.off # 0
          /\ items[lastOp.proc][i].received_at.off # 0
    /\ Len(items[lastOp.proc]) >= 2

(* ------------------------------- C11 --------------------------------- *)
\* C11: completion is one-way and the only mutation of a record.  Over
\* sync, mark_done, add_manual_item and export on one Store, every record
\* held stays held under its message_id, and from one state to the next it
\* is either unchanged or differs only in completed going from false to
\* true, by a mark_done of that id; so a completed record stays completed
\* and no other field ever changes.
C11_CompletionOneWay ==
    [][
        \A i \in 1..Len(items["p1"]) :
            LET r == items["p1"][i]
                after == get(items'["p1"], r.message_id)
            IN
            /\ after.found
            /\ \/ after.item[1] = r
               \/ /\ ~r.completed
                  /\ after.item[1] = [r EXCEPT !.completed = TRUE]
                  /\ lastOp'.op = "mark_done"
                  /\ lastOp'.id = r.message_id
    ]_vars

\* A manual record was added to a store that holds a completed record.
C11_Witness ==
    /\ lastOp.op = "add_manual_item"
    /\ lastOp.outcome = "ok"
    /\ \E i \in 1..Len(items["p1"]) :
          /\ items["p1"][i].completed
          /\ items["p1"][i].message_id # lastOp.id

(* ------------------------------- C12 --------------------------------- *)
\* C12: the multi-process race.  With two processes on one storage path,
\* each holding the records it loaded, a call that saves writes the
\* document from the saving process's records alone, with no lock, merge
\* or version check, and a call that does not save leaves the document as
\* it was; so what the other process persisted in between is overwritten
\* (the state C12_Witness is reached).
C12_SaveOverwrites ==
    [][
        LET p == lastOp'.proc IN
        IF EventsOf(lastOp'.trace, "save") # <<>>
        THEN /\ disk'.exists
             /\ Len(disk'.data) = Len(items'[p])
             /\ \A i \in 1..Len(items'[p]) : disk'.data[i] = to_dict(items'[p][i])
        ELSE disk' = disk
    ]_vars

\* A lost update: p1 has just saved, and a completion that p2 persisted
\* (p2 holds the record as completed) is no longer in the document, which
\* holds the record as pending.
C12_Witness ==
    /\ lastOp.proc = "p1"
    /\ EventsOf(lastOp.trace, "save") # <<>>
    /\ \E i \in 1..Len(items["p2"]) :
          /\ items["p2"][i].completed
          /\ Persisted(disk, items["p2"][i].message_id) # <<>>
          /\ \A e \in 1..Len(disk.data) :
                disk.data[e].message_id = items["p2"][i].message_id
                    => ~disk.data[e].completed

(* ------------------------------- C13 --------------------------------- *)
\* C13: constructing a Record fails whenever received_at, scheduled_for or
\* created_at is timezone-naive, in TodoItem(...) and in from_dict alike;
\* so a record that was constructed had an offset on all three timestamps
\* it was given, and none of its offsets was filled in for it.
C13_NaiveRejected ==
    lastOp.op \in {"construct", "deserialize"} =>
        LET given == lastOp.arg[1] IN
        /\ (~given.received_at.aware \/ ~given.scheduled_for.aware \/ ~given.created_at.aware)
              => lastOp.outcome = "ValueError"
        /\ lastOp.outcome = "ok" =>
              /\ lastOp.result[1].received_at = given.received_at
              /\ lastOp.result[1].scheduled_for = given.scheduled_for
              /\ lastOp.result[1].created_at = given.created_at

(* ------------------------------- C14 --------------------------------- *)
\* The positions of a fetched list sync has to import into store s: the
\* first occurrence of every message_id that s does not hold.
NewPositions(fetched, s) ==
    {i \in 1..Len(fetched) :
        /\ ~contains(s, fetched[i].id)
        /\ \A j \in 1..(i - 1) : fetched[j].id # fetched[i].id}

\* The k-th of a set of positions, in ascending order.
NthPosition(positions, k) ==
    CHOOSE i \in positions : Cardinality({j \in positions : j < i}) = k - 1

\* C14: a sync call that returns, returns one pending record for each
\* fetched message whose message_id the Store did not hold, the first
\* occurrence of each id only, in fetch order, with the message's sender and
\* received time, and with scheduled_for equal to the schedule override when
\* one was given and to the record's received_at otherwise; the Store
\* afterwards is the Store before followed by exactly these records.
C14_SyncResult ==
    [][
        (lastOp'.op = "sync" /\ lastOp'.outcome = "ok") =>
            LET p == lastOp'.proc
                fetched == lastOp'.fetched
                result == lastOp'.result
                new == NewPositions(fetched, items[p])
            IN
            /\ Len(result) = Cardinality(new)
            /\ \A k \in 1..Len(result) :
                  LET message == fetched[NthPosition(new, k)] IN
                  /\ result[k].message_id = message.id
                  /\ result[k].sender = extract_sender(message)
                  /\ result[k].received_at = parse_graph_datetime(message.receivedDateTime)
                  /\ ~result[k].completed
                  /\ result[k].scheduled_for =
                        IF lastOp'.arg # <<>> THEN lastOp'.arg[1] ELSE result[k].received_at
            /\ items'[p] = items[p] \o result
            /\ Len(items'[p]) = Len(items[p]) + Len(result)
    ]_vars

\* A sync with a schedule override whose fetch named one new id twice: one
\* record was returned and added to a store that held another.
C14_Witness ==
    /\ lastOp.op = "sync"
    /\ lastOp.outcome = "ok"
    /\ lastOp.arg # <<>>
    /\ Len(lastOp.fetched) = 2
    /\ lastOp.fetched[1].id = lastOp.fetched[2].id
    /\ Len(lastOp.result) = 1
    /\ Len(items[lastOp.proc]) = 2

(* ------------------------------- C15 --------------------------------- *)
\* C15: add_manual_item always creates a record under a message_id the
\* Store did not hold.  Over sync, add_manual_item, mark_done and
\* Store.remove, every add_manual_item call that returns has filed its
\* record under an id that was not held, has increased the size of the
\* Store by exactly one, and has left every record already held as it was.
C15_ManualItemIsNew ==
    [][
        (lastOp'.op = "add_manual_item" /\ lastOp'.outcome = "ok") =>
            LET p == lastOp'.proc IN
            /\ ~contains(items[p], lastOp'.id)
            /\ Len(items'[p]) = Len(items[p]) + 1
            /\ \A i \in 1..Len(items[p]) :
                  get(items'[p], items[p][i].message_id).item = <<items[p][i]>>
    ]_vars

(* ------------------------------- C16 --------------------------------- *)
\* C16: sync is all-or-nothing on failure.  When a sync call raises (the
\* fetch failed, a message could not be converted, or a timestamp was
\* rejected), the in-memory Store and the persisted document are what they
\* were before the call, so every record the Store holds that it did not
\* hold before the call is in the document.
C16_SyncAllOrNothing ==
    [][
        (lastOp'.op = "sync" /\ lastOp'.outcome # "ok") =>
            LET p == lastOp'.proc IN
            /\ items'[p] = items[p]
            /\ disk' = disk
            /\ \A i \in 1..Len(items'[p]) :
                  ~contains(items[p], items'[p][i].message_id)
                      => Persisted(disk', items'[p][i].message_id) # <<>>
    ]_vars

====
